---- MODULE Spec2Model ----
(***************************************************************************)
(* K8sPersistentVolume and K8sNamespace: the two resource controllers of   *)
(* kubernetes-py.  The model has three parts, each with its own            *)
(* specification over the same variables:                                  *)
(*   SpecVol  - the typed volume source of a K8sPersistentVolume: the      *)
(*              constructor, the type setter, source and the six           *)
(*              variant-specific accessors, and get();                     *)
(*   Spec     - the remote life cycle: create()/get() of both controllers, *)
(*              update() of K8sNamespace, and the readiness polling loop   *)
(*              _wait_for_available, one step per loop iteration;          *)
(*   SpecNS   - K8sNamespace.list() and K8sNamespace.get_by_name().        *)
(* Python's None is the string "None"; an absent object (a None source, a  *)
(* None result) is the function with the empty domain, which has no        *)
(* attribute at all.                                                       *)
(***************************************************************************)
EXTENDS Integers, Sequences, FiniteSets, TLC

VARIABLES
    pv_type,        \* K8sPersistentVolume._type
    pv_model,       \* K8sPersistentVolume.model: [name, uid, spec, phase]
    pv_last,        \* the last call on the volume controller and its outcome
    pc,             \* position of the volume controller inside create()
    start_time,     \* _wait_for_available: start_time
    clock,          \* the last value time.time() returned
    elapsed_time,   \* _wait_for_available: elapsed_time
    gets,           \* get() calls issued by the current create()
    n0,             \* the server's script at the moment create() submitted
    server,         \* the remote volume: [spec, left]
    ns_config,      \* K8sNamespace.config
    ns_model,       \* K8sNamespace.model: [obj, name, uid]
    ns_last,        \* the last call on the namespace controller and its outcome
    ns_result       \* what the last list() / get_by_name() returned

vars == <<pv_type, pv_model, pv_last, pc, start_time, clock, elapsed_time,
          gets, n0, server, ns_config, ns_model, ns_last, ns_result>>

pollVars == <<pc, start_time, clock, elapsed_time, gets, n0>>
nsVars == <<ns_config, ns_model, ns_last, ns_result>>
pvVars == <<pv_type, pv_model, pv_last>>

----------------------------------------------------------------------------
(* Values *)

None == "None"

\* attribute values a caller writes into a volume source
Vals == {"v1"}

\* the object None: it has no attributes
NoObject == [a \in {} |-> None]

READY_WAIT_TIMEOUT_SECONDS == 60

\* Volume.VOLUME_TYPES_TO_SOURCE_MAP.keys()
VOLUME_TYPES ==
    {"awsElasticBlockStore", "emptyDir", "gcePersistentDisk", "gitRepo",
     "hostPath", "nfs", "secret"}

VALID_VOLUME_TYPES == VOLUME_TYPES \ {"emptyDir", "gitRepo", "secret"}

\* what a caller may pass as a type: every key, a word that is no key, None
TypeArgs == VOLUME_TYPES \cup {"bogus", None}

\* the attributes of the source object of each persistent volume type
SourceAttrs(t) ==
    CASE t = "hostPath"             -> {"path"}
      [] t = "awsElasticBlockStore" -> {"volume_id", "fs_type"}
      [] t = "gcePersistentDisk"    -> {"pd_name", "fs_type"}
      [] t = "nfs"                  -> {"server", "path"}
      [] OTHER                      -> {}

\* Volume.vol_type_to_source(t): a fresh source object, every attribute None
vol_type_to_source(t) == [a \in SourceAttrs(t) |-> None]

hasattr(obj, a) == a \in DOMAIN obj

\* PersistentVolume().spec: no variant slot populated
EmptySpec == [t \in VALID_VOLUME_TYPES |-> NoObject]

\* PersistentVolume() with the name set by the constructor
NewVolumeModel(name) ==
    [name |-> name, uid |-> None, spec |-> EmptySpec, phase |-> None]

PopulatedSlots(model) == {t \in DOMAIN model.spec : model.spec[t] # NoObject}

----------------------------------------------------------------------------
(* K8sPersistentVolume: type, source and the variant accessors.  Each      *)
(* operator takes the controller as [type, model] and returns the          *)
(* controller after the call with the exception raised (or None) and the   *)
(* value returned.                                                         *)

Self == [type |-> pv_type, model |-> pv_model]

Outcome(self, err, ret) == [self |-> self, err |-> err, ret |-> ret]

\* setattr(self.model.spec, t, src): the slot of t is assigned
setattr(spec, t, src) == [spec EXCEPT ![t] = src]

\* type (getter)
type_getter(self) == Outcome(self, None, self.type)

type_setter_Mutant(self, t) ==
    IF t \notin VALID_VOLUME_TYPES
    THEN Outcome([self EXCEPT !.type = t], "SyntaxError", None)
    ELSE Outcome([type |-> t,
                  model |-> [self.model EXCEPT
                                !.spec = setattr(self.model.spec, t, vol_type_to_source(t))]],
                 None, None)

\* type (setter)
type_setter(self, t) ==
    IF t \notin VALID_VOLUME_TYPES
    THEN Outcome(self, "SyntaxError", None)
    ELSE Outcome([type |-> t,
                  model |-> [self.model EXCEPT
                                !.spec = setattr(self.model.spec, t, vol_type_to_source(t))]],
                 None, None)

\* source (getter): getattr(self.model.spec, self._type, None)
source(self) ==
    IF self.type \in DOMAIN self.model.spec
    THEN self.model.spec[self.type]
    ELSE NoObject

\* the accessors and the source attribute each of them reads and writes
Accessors == {"host_path", "volume_id", "pd_name", "fs_type", "nfs_server", "nfs_path"}

AccessorAttr(acc) ==
    CASE acc = "host_path"  -> "path"
      [] acc = "volume_id"  -> "volume_id"
      [] acc = "pd_name"    -> "pd_name"
      [] acc = "fs_type"    -> "fs_type"
      [] acc = "nfs_server" -> "server"
      [] acc = "nfs_path"   -> "path"

\* the variants an accessor belongs to, as the section headings name them
AccessorVariants(acc) ==
    CASE acc = "host_path"  -> {"hostPath"}
      [] acc = "volume_id"  -> {"awsElasticBlockStore"}
      [] acc = "pd_name"    -> {"gcePersistentDisk"}
      [] acc = "fs_type"    -> {"awsElasticBlockStore", "gcePersistentDisk"}
      [] acc = "nfs_server" -> {"nfs"}
      [] acc = "nfs_path"   -> {"nfs"}

\* host_path, volume_id, pd_name, fs_type, nfs_server, nfs_path (getters)
accessor_getter(self, acc) ==
    IF ~ hasattr(source(self), AccessorAttr(acc))
    THEN Outcome(self, "NotImplementedError", None)
    ELSE Outcome(self, None, source(self)[AccessorAttr(acc)])

\* host_path, volume_id, pd_name, fs_type, nfs_server, nfs_path (setters)
accessor_setter(self, acc, v) ==
    IF ~ hasattr(source(self), AccessorAttr(acc))
    THEN Outcome(self, "NotImplementedError", None)
    ELSE Outcome([self EXCEPT !.model.spec[self.type][AccessorAttr(acc)] = v],
                 None, None)

\* __init__(config, name, type): a raise leaves no object behind
init(name, t) ==
    type_setter([type |-> None, model |-> NewVolumeModel(name)], t)

----------------------------------------------------------------------------
(* The remote volume.  The server keeps the spec it was sent and a script  *)
(* of its status: it reports a phase other than "Available" on the next    *)
(* `left` fetches and "Available" from then on; Never is the server that   *)
(* never reports "Available".                                              *)

Never == 0 - 1

MaxN == 2

Scripts == (0 .. MaxN) \cup {Never}

PendingPhases == {"Pending", "Failed"}

\* the phases the server may report on the next fetch
ServerPhases(srv) == IF srv.left = 0 THEN {"Available"} ELSE PendingPhases

ServerAfterFetch(srv) ==
    IF srv.left > 0 THEN [srv EXCEPT !.left = srv.left - 1] ELSE srv

\* K8sObject.get_model(): the document of the object of that name
get_model(name, srv, phase) ==
    [metadata |-> [name |-> name, uid |-> "uid-pv"],
     spec     |-> srv.spec,
     status   |-> [phase |-> phase]]

\* PersistentVolume(model=doc): the model parsed from a server document
PersistentVolume(doc) ==
    [name  |-> doc.metadata.name,
     uid   |-> doc.metadata.uid,
     spec  |-> doc.spec,
     phase |-> doc.status.phase]

\* K8sPersistentVolume.get(): the model is replaced by the parsed document
get(self, doc) == [self EXCEPT !.model = PersistentVolume(doc)]

----------------------------------------------------------------------------
(* Actions on the typed volume source *)

\* The two controllers share no state: a run works with one of them.
PvUntouched == pc = "idle" /\ pv_last.op = "init"

NsUntouched == ns_last.op = "init"

Last(op, arg, val, o) ==
    [op |-> op, arg |-> arg, val |-> val, err |-> o.err, ret |-> o.ret]

Apply(op, arg, val, o) ==
    /\ NsUntouched
    /\ pv_type' = o.self.type
    /\ pv_model' = o.self.model
    /\ pv_last' = Last(op, arg, val, o)

\* K8sPersistentVolume(config, name, type=t); a raise keeps the old object
Construct ==
    \E t \in TypeArgs :
        LET o == init("pv1", t) IN
        /\ pc # "loop"
        /\ Apply("init", t, None, IF o.err = None THEN o ELSE Outcome(Self, o.err, None))
        /\ UNCHANGED <<pollVars, server, nsVars>>

\* pv.type = t
SetType ==
    \E t \in TypeArgs :
        /\ pc # "loop"
        /\ Apply("set_type", t, None, type_setter(Self, t))
        /\ UNCHANGED <<pollVars, server, nsVars>>

\* pv.type
ReadType ==
    /\ pc # "loop"
    /\ Apply("type", None, None, type_getter(Self))
    /\ UNCHANGED <<pollVars, server, nsVars>>

\* pv.host_path, pv.volume_id, ...
ReadAccessor ==
    \E acc \in Accessors :
        /\ pc # "loop"
        /\ Apply("read", acc, None, accessor_getter(Self, acc))
        /\ UNCHANGED <<pollVars, server, nsVars>>

\* pv.host_path = v, pv.volume_id = v, ...
WriteAccessor ==
    \E acc \in Accessors, v \in Vals :
        /\ pc # "loop"
        /\ Apply("write", acc, v, accessor_setter(Self, acc, v))
        /\ UNCHANGED <<pollVars, server, nsVars>>

----------------------------------------------------------------------------
(* create() and the readiness polling loop of K8sPersistentVolume.         *)
(* A remote call answers [ok |-> TRUE, doc |-> d] or raises: [ok |-> FALSE,*)
(* err |-> e].  time.time() is read once when the loop is entered and once *)
(* after every get(); only differences of readings are used, so the first  *)
(* reading of a create() is any value in 0 .. MaxStart and each later one  *)
(* is the previous reading plus the time the get() took.                   *)

MaxStart == 1

MaxTick == 30

\* how long one get() may take
Ticks == {0, 1, MaxTick - 1, MaxTick}

Ok(doc) == [ok |-> TRUE, doc |-> doc]

Raises(e) == [ok |-> FALSE, err |-> e]

\* K8sObject.create(): submits the model; a rejection is raised to the caller
super_create(self, r) ==
    IF r.ok THEN Outcome(self, None, None) ELSE Outcome(self, r.err, None)

get_call_Mutant(self, r) ==
    IF r.ok
    THEN Outcome(get(self, r.doc), None, None)
    ELSE Outcome([self EXCEPT !.model = NewVolumeModel(self.model.name)], r.err, None)

\* get() with the answer of get_model(): a raise happens before the assignment
get_call(self, r) ==
    IF r.ok
    THEN Outcome(get(self, r.doc), None, None)
    ELSE Outcome(self, r.err, None)

\* while not self.model.status.phase == 'Available'
loop_condition(self) == ~ (self.model.phase = "Available")

\* elapsed_time = time.time() - start_time
elapsed(now, start) == now - start

timed_out_Mutant(e) == e > READY_WAIT_TIMEOUT_SECONDS

\* if elapsed_time >= READY_WAIT_TIMEOUT_SECONDS
timed_out(e) == e >= READY_WAIT_TIMEOUT_SECONDS

\* "Timed out waiting on readiness of PersistentVolume: [ {} ]".format(self.name)
TimedOutException(self) == [err |-> "TimedOutException", name |-> self.model.name]

\* create(): super().create() succeeded; _wait_for_available reads start_time.
\* elapsed_time is not bound before the first get(); 0 stands for "not yet read"
\* and is never tested.
Create ==
    \E n \in Scripts, t0 \in 0 .. MaxStart :
        LET o == super_create(Self, Ok(NoObject)) IN
        /\ pc # "loop"
        /\ Apply("create", None, None, o)
        /\ server' = [spec |-> pv_model.spec, left |-> n]
        /\ n0' = n
        /\ start_time' = t0
        /\ clock' = t0
        /\ elapsed_time' = 0
        /\ gets' = 0
        /\ pc' = "loop"
        /\ UNCHANGED nsVars

\* create(): super().create() raises; nothing else is called
CreateRejected ==
    LET o == super_create(Self, Raises("RemoteRejected")) IN
    /\ pc # "loop"
    /\ Apply("create", None, None, o)
    /\ gets' = 0
    /\ pc' = "failed"
    /\ UNCHANGED <<start_time, clock, elapsed_time, n0, server, nsVars>>

\* the loop condition is false: _wait_for_available and create() return
LoopExit ==
    /\ pc = "loop"
    /\ ~ loop_condition(Self)
    /\ Apply("create", None, None, Outcome(Self, None, None))
    /\ pc' = "returned"
    /\ UNCHANGED <<start_time, clock, elapsed_time, gets, n0, server, nsVars>>

\* one iteration: get() succeeds, the elapsed time is read and tested
Poll ==
    \E phase \in ServerPhases(server), d \in Ticks :
        LET o   == get_call(Self, Ok(get_model(pv_model.name, server, phase)))
            now == clock + d
            e   == elapsed(now, start_time)
        IN
        /\ pc = "loop"
        /\ loop_condition(Self)
        /\ gets <= MaxN
        /\ gets' = gets + 1
        /\ server' = ServerAfterFetch(server)
        /\ clock' = now
        /\ elapsed_time' = e
        /\ IF timed_out(e)
           THEN /\ Apply("create", None, None,
                         Outcome(o.self, TimedOutException(o.self).err,
                                 TimedOutException(o.self).name))
                /\ pc' = "TimedOut"
           ELSE /\ Apply("create", None, None, o)
                /\ pc' = "loop"
        /\ UNCHANGED <<start_time, n0, nsVars>>

\* one iteration: get() raises, the error leaves the loop and create()
PollFails ==
    LET o == get_call(Self, Raises("NotFound")) IN
    /\ pc = "loop"
    /\ loop_condition(Self)
    /\ gets <= MaxN
    /\ gets' = gets + 1
    /\ Apply("create", None, None, o)
    /\ pc' = "failed"
    /\ UNCHANGED <<start_time, clock, elapsed_time, n0, server, nsVars>>

\* pv.get() outside create(): the fetch succeeds
GetVol ==
    \E phase \in ServerPhases(server) :
        /\ pc # "loop"
        /\ Apply("get", None, None,
                 get_call(Self, Ok(get_model(pv_model.name, server, phase))))
        /\ server' = ServerAfterFetch(server)
        /\ UNCHANGED <<pollVars, nsVars>>

\* pv.get() outside create(): get_model raises
GetVolFails ==
    /\ pc # "loop"
    /\ Apply("get", None, None, get_call(Self, Raises("NotFound")))
    /\ UNCHANGED <<pollVars, server, nsVars>>

----------------------------------------------------------------------------
(* K8sNamespace.  A model is an object of its own: `obj` is its address,   *)
(* given out by Alloc as the least address no live object has.  A          *)
(* controller is [config, model].                                          *)

Names == {"n1", "n2"}

Configs == {"cfgA", "cfgB"}

MaxList == 2

\* server-assigned uids, as many as a listing has places
UidNames == <<"u1", "u2", "u3", "u4">>

Uids == {UidNames[i] : i \in 1 .. MaxList}

\* a namespace document as the server sends it
NamespaceDocs == {[metadata |-> [name |-> n, uid |-> u]] : n \in Names, u \in Uids}

\* the collections the server may answer list() with: uids are unique, names need not be
Listings ==
    {<<>>} \cup
    {L \in UNION {[1 .. k -> NamespaceDocs] : k \in 1 .. MaxList} :
        \A i, j \in DOMAIN L : i # j => L[i].metadata.uid # L[j].metadata.uid}

Alloc(live) ==
    CHOOSE k \in 0 .. Cardinality(live) :
        k \notin live /\ \A j \in 0 .. k - 1 : j \in live

\* Namespace(doc): the model parsed from a server document, a new object
Namespace(doc, obj) ==
    [obj |-> obj, name |-> doc.metadata.name, uid |-> doc.metadata.uid]

\* K8sNamespace(config, name): K8sObject.__init__ builds a model of that name
K8sNamespace(config, name, obj) ==
    [config |-> config, model |-> [obj |-> obj, name |-> name, uid |-> None]]

NsSelf == [config |-> ns_config, model |-> ns_model]

\* the model objects the caller still holds
NsLive == {ns_model.obj} \cup {ns_result.ctls[i].model.obj : i \in DOMAIN ns_result.ctls}
              \cup (IF ns_result.found = NoObject THEN {} ELSE {ns_result.found.model.obj})

NsOutcome(self, err, calls) == [self |-> self, err |-> err, calls |-> calls]

\* K8sNamespace.get()
ns_get(self, r, live) ==
    IF r.ok
    THEN NsOutcome([self EXCEPT !.model = Namespace(r.doc, Alloc(live))], None, <<"get">>)
    ELSE NsOutcome(self, r.err, <<"get">>)

\* K8sNamespace.create() and update(): the call `what` of K8sObject, then get()
ns_submit(self, what, r1, r2, live) ==
    IF ~ r1.ok
    THEN NsOutcome(self, r1.err, <<what>>)
    ELSE LET g == ns_get(self, r2, live) IN
         NsOutcome(g.self, g.err, <<what>> \o g.calls)

ns_create(self, r1, r2, live) == ns_submit(self, "create", r1, r2, live)

ns_update(self, r1, r2, live) == ns_submit(self, "update", r1, r2, live)

RECURSIVE list_loop_Mutant(_, _, _, _)
list_loop_Mutant(self, ns, k8s_ns, live) ==
    IF ns = <<>>
    THEN k8s_ns
    ELSE LET y   == Namespace(Head(ns), Alloc(live))
             k8s == K8sNamespace(self.config, self.model.name, Alloc(live \cup {y.obj}))
         IN  list_loop_Mutant(self, Tail(ns), Append(k8s_ns, k8s), live \cup {k8s.model.obj})

\* the body of list(): for x in ns: y = Namespace(x); k8s = K8sNamespace(...); k8s.model = y
RECURSIVE list_loop(_, _, _, _)
list_loop(self, ns, k8s_ns, live) ==
    IF ns = <<>>
    THEN k8s_ns
    ELSE LET y   == Namespace(Head(ns), Alloc(live))
             k8s == [K8sNamespace(self.config, self.model.name, Alloc(live \cup {y.obj}))
                        EXCEPT !.model = y]
         IN  list_loop(self, Tail(ns), Append(k8s_ns, k8s), live \cup {y.obj})

\* K8sNamespace.list(): r answers K8sObject.list()
list(self, r, live) ==
    IF r.ok
    THEN [ret |-> list_loop(self, r.doc, <<>>, live), err |-> None]
    ELSE [ret |-> <<>>, err |-> r.err]

get_by_name_Mutant(config, name, r, live) ==
    LET tmp        == K8sNamespace(config, name, Alloc(live))
        namespaces == list(tmp, r, live \cup {tmp.model.obj})
    IN  IF namespaces.err # None
        THEN [ret |-> NoObject, err |-> namespaces.err]
        ELSE IF namespaces.ret # <<>>
             THEN [ret |-> namespaces.ret[1], err |-> None]
             ELSE [ret |-> NoObject, err |-> None]

\* K8sNamespace.get_by_name(config, name)
get_by_name(config, name, r, live) ==
    LET tmp        == K8sNamespace(config, name, Alloc(live))
        namespaces == list(tmp, r, live \cup {tmp.model.obj})
        filtered   == SelectSeq(namespaces.ret, LAMBDA x : x.model.name = name)
    IN  IF namespaces.err # None
        THEN [ret |-> NoObject, err |-> namespaces.err]
        ELSE IF filtered # <<>>
             THEN [ret |-> filtered[1], err |-> None]
             ELSE [ret |-> NoObject, err |-> None]

----------------------------------------------------------------------------
(* Actions on the namespace controller *)

NsLast(op, arg, listing, calls, err) ==
    [op |-> op, arg |-> arg, listing |-> listing, calls |-> calls, err |-> err]

NoResult == [ctls |-> <<>>, found |-> NoObject]

NsDoc(uid) == [metadata |-> [name |-> ns_model.name, uid |-> uid]]

NsApply(op, o) ==
    /\ PvUntouched
    /\ ns_model' = o.self.model
    /\ ns_last' = NsLast(op, None, <<>>, o.calls, o.err)
    /\ UNCHANGED <<ns_config, ns_result, pvVars, pollVars, server>>

\* ns.get()
NsGet ==
    \E r \in {Ok(NsDoc(u)) : u \in Uids} \cup {Raises("NotFound")} :
        NsApply("get", ns_get(NsSelf, r, NsLive))

\* ns.create()
NsCreate ==
    \E r1 \in {Ok(NoObject), Raises("RemoteRejected")},
       r2 \in {Ok(NsDoc(u)) : u \in Uids} \cup {Raises("NotFound")} :
        NsApply("create", ns_create(NsSelf, r1, r2, NsLive))

\* ns.update()
NsUpdate ==
    \E r1 \in {Ok(NoObject), Raises("Conflict")},
       r2 \in {Ok(NsDoc(u)) : u \in Uids} \cup {Raises("NotFound")} :
        NsApply("update", ns_update(NsSelf, r1, r2, NsLive))

\* ns.name = name
NsSetName ==
    \E name \in Names :
        /\ ns_model' = [ns_model EXCEPT !.name = name]
        /\ ns_last' = NsLast("set_name", name, <<>>, <<>>, None)
        /\ UNCHANGED <<ns_config, ns_result, pvVars, pollVars, server>>

\* ns.list()
NsList ==
    \E r \in {Ok(L) : L \in Listings} \cup {Raises("RemoteRejected")} :
        LET o == list(NsSelf, r, {ns_model.obj}) IN
        /\ ns_result' = [ctls |-> o.ret, found |-> NoObject]
        /\ ns_last' = NsLast("list", None, IF r.ok THEN r.doc ELSE <<>>, <<"list">>, o.err)
        /\ UNCHANGED <<ns_config, ns_model, pvVars, pollVars, server>>

\* K8sNamespace.get_by_name(config, name)
NsGetByName ==
    \E config \in Configs, name \in Names,
       r \in {Ok(L) : L \in Listings} \cup {Raises("RemoteRejected")} :
        LET o == get_by_name(config, name, r, {ns_model.obj}) IN
        /\ ns_result' = [ctls |-> <<>>, found |-> o.ret]
        /\ ns_last' = NsLast("get_by_name", [config |-> config, name |-> name],
                             IF r.ok THEN r.doc ELSE <<>>, <<"list">>, o.err)
        /\ UNCHANGED <<ns_config, ns_model, pvVars, pollVars, server>>

----------------------------------------------------------------------------
(* The specifications *)

VolInit(t) ==
    LET o == init("pv1", t) IN
    /\ pv_type = o.self.type
    /\ pv_model = o.self.model
    /\ pv_last = [op |-> "init", arg |-> t, val |-> None, err |-> o.err, ret |-> o.ret]

PollInit ==
    /\ pc = "idle"
    /\ start_time = 0
    /\ clock = 0
    /\ elapsed_time = 0
    /\ gets = 0
    /\ n0 = 0

NsInit(config, name) ==
    /\ ns_config = config
    /\ ns_model = K8sNamespace(config, name, 0).model
    /\ ns_last = [op |-> "init", arg |-> None, listing |-> <<>>, calls |-> <<>>,
                  err |-> None]
    /\ ns_result = NoResult

\* a volume the server already holds: one variant, every field set
ServerSpec(t) == [EmptySpec EXCEPT ![t] = [a \in SourceAttrs(t) |-> "v1"]]

InitVol ==
    /\ \E t \in VALID_VOLUME_TYPES : VolInit(t)
    /\ PollInit
    /\ server = [spec |-> ServerSpec("nfs"), left |-> 0]
    /\ NsInit("cfgA", "n1")

NextVol ==
    \/ Construct
    \/ SetType
    \/ ReadType
    \/ ReadAccessor
    \/ WriteAccessor
    \/ GetVol
    \/ GetVolFails

SpecVol == InitVol /\ [][NextVol]_vars

Init ==
    /\ VolInit("hostPath")
    /\ PollInit
    /\ \E n \in Scripts : server = [spec |-> ServerSpec("hostPath"), left |-> n]
    /\ NsInit("cfgA", "n1")

Next ==
    \/ Create
    \/ CreateRejected
    \/ LoopExit
    \/ Poll
    \/ PollFails
    \/ GetVol
    \/ GetVolFails
    \/ NsCreate
    \/ NsUpdate
    \/ NsGet

Spec == Init /\ [][Next]_vars

InitNS ==
    /\ VolInit("hostPath")
    /\ PollInit
    /\ server = [spec |-> ServerSpec("hostPath"), left |-> 0]
    /\ \E config \in Configs, name \in Names : NsInit(config, name)

NextNS ==
    \/ NsList
    \/ NsGetByName
    \/ NsSetName

SpecNS == InitNS /\ [][NextNS]_vars

----------------------------------------------------------------------------
(* Claims *)

\* C1: a create() whose server reports a phase other than "Available" on the
\* first N get() calls and "Available" on the next one, with every elapsed
\* time below the timeout, returns after exactly N + 1 get() calls and never
\* with TimedOut.  (Stated as the claim has it; the code returns after no
\* get() at all when the local model already shows "Available".)
C1_ReturnsAfterNPlusOnePolls ==
    (n0 # Never /\ pc \in {"returned", "TimedOut"}
        /\ elapsed_time < READY_WAIT_TIMEOUT_SECONDS)
    => (pc = "returned" /\ gets = n0 + 1)

\* C2: with a server that never reports "Available", a poll that observes an
\* elapsed time >= 60 (60 itself included) ends the loop with
\* TimedOutException naming the resource, so the loop cannot go on once the
\* clock has passed the timeout; and TimedOut is never raised while the
\* observed elapsed time is below 60.
C2_TimedOutAtTimeout ==
    /\ (n0 = Never /\ gets > 0 /\ elapsed_time >= READY_WAIT_TIMEOUT_SECONDS)
          => pc = "TimedOut"
    /\ (pc = "TimedOut" /\ pv_last.op = "create")
          => (pv_last.err = "TimedOutException" /\ pv_last.ret = pv_model.name)
    /\ pc = "TimedOut" => elapsed_time >= READY_WAIT_TIMEOUT_SECONDS

C2_Witness ==
    /\ pc = "TimedOut"
    /\ n0 = Never
    /\ elapsed_time = READY_WAIT_TIMEOUT_SECONDS
    /\ pv_last.op = "create"
    /\ gets > 1

\* C3: after type = t succeeds, reading type returns t and exactly one
\* variant slot of spec is populated, the slot of t.  (Stated as the claim
\* has it; the code leaves the slot of the type selected before populated.)
C3_ExactlyOneSlot ==
    (pv_last.op = "set_type" /\ pv_last.err = None)
    => /\ type_getter(Self).ret = pv_last.arg
       /\ PopulatedSlots(pv_model) = {pv_last.arg}

\* C4: the type setter called with a value outside VALID_VOLUME_TYPES
\* ("emptyDir", "gitRepo", "secret", an unknown word, None) raises SyntaxError
\* (the InvalidArgument error) and leaves _type, the model with its variant
\* slots, and so the source, as they were before the call.
C4_InvalidTypeRejected ==
    [][(pv_last'.op = "set_type" /\ pv_last'.arg \notin VALID_VOLUME_TYPES)
          => /\ pv_last'.err = "SyntaxError"
             /\ pv_type' = pv_type
             /\ pv_model' = pv_model]_vars

C4_Witness ==
    /\ pv_last.op = "set_type"
    /\ pv_last.arg = "secret"
    /\ pv_last.err = "SyntaxError"
    /\ pv_type = "nfs"
    /\ source(Self) = [server |-> "v1", path |-> "v1"]

\* C5: a variant accessor read or written on a volume whose active type is
\* not a variant the accessor belongs to raises NotImplementedError (the
\* UnsupportedForVariant error).  (Stated as the claim has it; host_path and
\* nfs_path both test for the attribute `path`, which both the hostPath and
\* the nfs source have.)
C5_AccessorVariantMismatch ==
    (pv_last.op \in {"read", "write"} /\ pv_type \notin AccessorVariants(pv_last.arg))
    => pv_last.err = "NotImplementedError"

\* C6: get_by_name(config, name) returns None when no element of the listing
\* (an empty listing included) has that name, and otherwise the first element
\* in the server's order whose name equals name; it never returns a namespace
\* of another name.
C6_GetByName ==
    (ns_last.op = "get_by_name" /\ ns_last.err = None)
    => LET L       == ns_last.listing
           name    == ns_last.arg.name
           matches == {i \in DOMAIN L : L[i].metadata.name = name}
           first   == CHOOSE i \in matches : \A j \in matches : i <= j
       IN  /\ matches = {} => ns_result.found = NoObject
           /\ matches # {} =>
                 /\ ns_result.found # NoObject
                 /\ ns_result.found.model.name = name
                 /\ ns_result.found.model.uid = L[first].metadata.uid
                 /\ ns_result.found.config = ns_last.arg.config

C6_Witness ==
    /\ ns_last.op = "get_by_name"
    /\ ns_last.err = None
    /\ Len(ns_last.listing) = 2
    /\ ns_last.listing[1].metadata.name # ns_last.arg.name
    /\ ns_last.listing[2].metadata.name = ns_last.arg.name
    /\ ns_result.found # NoObject

\* C7: every create() that returns has issued a get() after the submission,
\* for both controllers.  (Stated as the claim has it; a K8sPersistentVolume
\* whose model already shows "Available" returns without any get().)
C7_CreateRefetches ==
    /\ pc = "returned" => gets >= 1
    /\ (ns_last.op = "create" /\ ns_last.err = None)
          => (ns_last.calls = <<"create", "get">> /\ ns_model.uid # None)

\* C8: list() returns one controller per element of the server's collection,
\* in its order, each with a model of its own built from its element and with
\* the caller's configuration; no two of them share a model, none shares the
\* caller's, and the caller's model is left unchanged.
C8_ListResult ==
    LET L == ns_last.listing
        R == ns_result.ctls
    IN  /\ Len(R) = Len(L)
        /\ \A i \in DOMAIN R :
              /\ R[i].model.name = L[i].metadata.name
              /\ R[i].model.uid = L[i].metadata.uid
              /\ R[i].config = ns_config
              /\ R[i].model.obj # ns_model.obj
              /\ \A j \in DOMAIN R : i # j => R[i].model.obj # R[j].model.obj

C8_List ==
    /\ [](ns_last.op = "list" /\ ns_last.err = None => C8_ListResult)
    /\ [][ns_last'.op = "list" => ns_model' = ns_model]_vars

C8_Witness ==
    /\ ns_last.op = "list"
    /\ ns_last.err = None
    /\ Len(ns_result.ctls) = 2
    /\ ns_result.ctls[1].model.name # ns_model.name
    /\ ns_result.ctls[2].model.name = ns_model.name

\* C9: a poll that observes "Available" is never followed by TimedOut.
\* (Stated as the claim has it; the code tests the elapsed time after every
\* get(), whatever phase it fetched.)
C9_AvailableNeverTimesOut ==
    pc = "TimedOut" => pv_model.phase # "Available"

\* C10: a remote call that fails raises to the caller, is the last remote call
\* of the operation, and leaves the model as it was before the operation: a
\* rejected create() issues no get(), and a failing get() inside the polling
\* loop ends the loop with the model of the last successful fetch.
C10_FailureKeepsModel ==
    /\ [][/\ pv_last'.err \in {"RemoteRejected", "NotFound"}
                => /\ pv_model' = pv_model
                   /\ pv_type' = pv_type
                   /\ pv_last'.op = "create" => pc' = "failed"
          /\ ns_last'.err # None => ns_model' = ns_model]_vars
    /\ []((pc = "failed" /\ pv_last.err = "RemoteRejected") => gets = 0)
    /\ [](ns_last.err \in {"RemoteRejected", "Conflict"} => Len(ns_last.calls) = 1)
    /\ [](ns_last.err = "NotFound" => ns_last.calls[Len(ns_last.calls)] = "get")

C10_Witness ==
    /\ pc = "failed"
    /\ pv_last.err = "NotFound"
    /\ gets = 2
    /\ pv_model.uid # None
    /\ pv_model.phase = "Pending"

====
